---- MODULE Spec2Model ----
(***************************************************************************)
(* Top-K site aggregation of the mineral dashboard, in its three variants: *)
(*   DB.py      select_topk_pairs(BASE, mineral, k) on the raw CSV table,  *)
(*   20DB.py    get_top(raw_base, TOP_K) on the pickled per-mineral frames,*)
(*   Top20DB.py get_top(BASE, k) on the same pickled frames.               *)
(* A pandas frame is a sequence of rows (records); NaN / a missing cell is *)
(* the empty tuple and a present cell v is the 1-tuple <<v>>.  A mean is   *)
(* NaN or the exact fraction <<sum, count>> (pandas divides the two).      *)
(* After the aggregation the module builds the initial figures and tables, *)
(* and update_all(chosen_mineral) rebuilds them on every dropdown choice:  *)
(* cols holds the column labels of the frames of BASE (20DB.py and         *)
(* Top20DB.py), view what the last call returned, seen what the first      *)
(* update_all of each mineral returned.                                    *)
(***************************************************************************)
EXTENDS Integers, Sequences, FiniteSets, TLC

VARIABLES variant, raw, k, agg, pc, cols, view, seen

vars == <<variant, raw, k, agg, pc, cols, view, seen>>

\* ------------------------------------------------------------------ bounds
MaxRows == 3
MaxK == 2

\* ------------------------------------------------------------ cell values
NaN == <<>>
Some(x) == <<x>>
isna(c) == c = NaN
notna(c) == c # NaN
Val(c) == c[1]

\* the values the bounded tables draw their cells from
Sites == {Some(1), Some(2), Some(3)}
Sites2 == {Some(1), Some(2)}
Lats == {Some(51)}
Longs == {Some(0)}
Types == {Some("RIVER")}
Months == {Some(1)}
Concs == {NaN, Some(1), Some(2)}
Concs2 == {NaN, Some(2)}
KValues == (0 - 1) .. MaxK

\* column headers of the CSV that hold the concentrations of one mineral
DEFAULT_MINERAL == "Magnesium"
ColDissolved == "Magnesium, Dissolved (ug/l)"
ColTotalMg == "Magnesium Total (ug/l)"

ColMg == "Magnesium (ug/l)"
ColZinc == "Zinc (ug/l)"
ColNitrate == "Nitrate as N (mg/l)"

\* `mineral in header`, the substring test behind DataFrame.filter(like=...)
Like(header, mineral) ==
    <<header, mineral>> \in {<<ColDissolved, "Magnesium">>, <<ColTotalMg, "Magnesium">>,
                             <<ColMg, "Magnesium">>, <<ColZinc, "Zinc">>,
                             <<ColNitrate, "Nitrate">>}

\* header.split()
Words(header) ==
    CASE header = ColDissolved -> <<"Magnesium,", "Dissolved", "(ug/l)">>
      [] header = ColTotalMg -> <<"Magnesium", "Total", "(ug/l)">>
      [] header = ColMg -> <<"Magnesium", "(ug/l)">>
      [] header = ColZinc -> <<"Zinc", "(ug/l)">>
      [] header = ColNitrate -> <<"Nitrate", "as", "N", "(mg/l)">>
      [] OTHER -> <<header>>

\* "Total" in name
HasTotal(name) == \E i \in 1 .. Len(Words(name)) : Words(name)[i] = "Total"

\* "," in header or ":" in header
HasPunctuation(header) == header = ColDissolved

\* re.search(r"\(ug/l\)|\(mg/l\)", header)
HasUnit(header) == \E i \in 1 .. Len(Words(header)) : Words(header)[i] \in {"(ug/l)", "(mg/l)"}

\* ---------------------------------------------------------------- helpers
RECURSIVE SeqSum(_)
SeqSum(s) == IF s = <<>> THEN 0 ELSE Head(s) + SeqSum(Tail(s))

Range(s) == {s[i] : i \in 1 .. Len(s)}

\* gb = ["Sampling Point", "lat", "long", "Type"]
gb(r) == <<r.SamplingPoint, r.lat, r.long, r.Type>>

\* groupby(dropna=True): a row with a missing key cell belongs to no group
KeyNotNa(r) == \A i \in 1 .. 4 : notna(gb(r)[i])

\* string order of the Type cells that occur
TypeOrder == <<"LAKE", "RIVER">>
TypeRank(t) == CHOOSE n \in 1 .. Len(TypeOrder) : TypeOrder[n] = Val(t)

\* lexicographic order of two (complete) group keys, as groupby(sort=True)
KeyLess(a, b) ==
    \/ Val(a[1]) < Val(b[1])
    \/ a[1] = b[1] /\ Val(a[2]) < Val(b[2])
    \/ a[1] = b[1] /\ a[2] = b[2] /\ Val(a[3]) < Val(b[3])
    \/ a[1] = b[1] /\ a[2] = b[2] /\ a[3] = b[3] /\ TypeRank(a[4]) < TypeRank(b[4])

RECURSIVE SortKeys(_)
SortKeys(S) ==
    IF S = {} THEN <<>>
    ELSE LET m == CHOOSE x \in S : \A y \in S \ {x} : KeyLess(x, y)
         IN <<m>> \o SortKeys(S \ {m})

\* ------------------------------------------------- the pandas operations
\* a mean that divides by the number of rows, the missing ones counted
mean_count_all(cells) ==
    LET present == SelectSeq(cells, notna)
    IN IF present = <<>> THEN NaN
       ELSE <<SeqSum([i \in 1 .. Len(present) |-> Val(present[i])]), Len(cells)>>

\* Series.mean(): skipna, NaN for a group without a value
mean(cells) ==
    LET present == SelectSeq(cells, notna)
    IN IF present = <<>> THEN NaN
       ELSE <<SeqSum([i \in 1 .. Len(present) |-> Val(present[i])]), Len(present)>>

\* the keys of a frame in the order of their first row
RECURSIVE FirstSeen(_)
FirstSeen(rows) ==
    IF rows = <<>> THEN <<>>
    ELSE LET front == FirstSeen(SubSeq(rows, 1, Len(rows) - 1))
             key == gb(rows[Len(rows)])
         IN IF key \in Range(front) THEN front ELSE Append(front, key)

\* groupby(gb, sort=False): the groups in the order of first appearance
groupby_mean_unsorted(df) ==
    LET keyed == SelectSeq(df, KeyNotNa)
        keys == FirstSeen(keyed)
    IN [i \in 1 .. Len(keys) |->
          LET grp == SelectSeq(keyed, LAMBDA r : gb(r) = keys[i])
          IN [key |-> keys[i], avg |-> mean([j \in 1 .. Len(grp) |-> grp[j].mc])]]

\* df.groupby(gb, as_index=False)[VALUE_COL].mean().rename(columns={VALUE_COL: AVG_COL})
\* one row per group key, in key order; rows with a missing key cell are dropped
groupby_mean(df) ==
    LET keyed == SelectSeq(df, KeyNotNa)
        keys == SortKeys({gb(keyed[i]) : i \in 1 .. Len(keyed)})
    IN [i \in 1 .. Len(keys) |->
          LET grp == SelectSeq(keyed, LAMBDA r : gb(r) = keys[i])
          IN [key |-> keys[i], avg |-> mean([j \in 1 .. Len(grp) |-> grp[j].mc])]]

\* a > b for two means that are numbers
MeanGreater(a, b) == a[1] * b[2] > b[1] * a[2]

RemoveAt(s, i) == SubSeq(s, 1, i - 1) \o SubSeq(s, i + 1, Len(s))

\* descending stable sort of the rows of means whose avg is a number
RECURSIVE SortDesc(_)
SortDesc(s) ==
    IF s = <<>> THEN <<>>
    ELSE LET best == {i \in 1 .. Len(s) :
                         \A j \in 1 .. Len(s) : ~MeanGreater(s[j].avg, s[i].avg)}
             first == CHOOSE i \in best : \A j \in best : i <= j
         IN <<s[first]>> \o SortDesc(RemoveAt(s, first))

\* nlargest with keep="all": the ties of the n-th value are all kept
nlargest_keep_all(n, means) ==
    IF n <= 0 THEN <<>>
    ELSE LET dropped == SortDesc(SelectSeq(means, LAMBDA e : notna(e.avg)))
         IN IF n >= Len(dropped) THEN dropped
            ELSE SelectSeq(dropped, LAMBDA e : ~MeanGreater(dropped[n].avg, e.avg))

\* nsmallest in the place of nlargest: the n lowest means
nsmallest(n, means) ==
    IF n <= 0 THEN <<>>
    ELSE LET dropped == SortDesc(SelectSeq(means, LAMBDA e : notna(e.avg)))
             ranked == [i \in 1 .. Len(dropped) |-> dropped[Len(dropped) + 1 - i]]
         IN SubSeq(ranked, 1, IF n < Len(ranked) THEN n ELSE Len(ranked))

\* one group short: the n - 1 largest
nlargest_short(n, means) ==
    IF n <= 0 THEN <<>>
    ELSE LET dropped == SelectSeq(means, LAMBDA e : notna(e.avg))
             nan_index == SelectSeq(means, LAMBDA e : isna(e.avg))
             ranked == SortDesc(dropped) \o nan_index
         IN SubSeq(ranked, 1, IF n - 1 < Len(ranked) THEN n - 1 ELSE Len(ranked))

\* means.nlargest(n, AVG_COL), keep="first": nothing for n <= 0; the n largest
\* numbers, ties in frame order; NaN rows fill what is left of n
nlargest(n, means) ==
    IF n <= 0 THEN <<>>
    ELSE LET dropped == SelectSeq(means, LAMBDA e : notna(e.avg))
             nan_index == SelectSeq(means, LAMBDA e : isna(e.avg))
             ranked == SortDesc(dropped) \o nan_index
         IN SubSeq(ranked, 1, IF n < Len(ranked) THEN n ELSE Len(ranked))

RECURSIVE DropDuplicates(_)
DropDuplicates(s) ==
    IF s = <<>> THEN <<>>
    ELSE LET front == DropDuplicates(SubSeq(s, 1, Len(s) - 1))
         IN IF s[Len(s)] \in Range(front) THEN front ELSE Append(front, s[Len(s)])

\* the merge followed by drop_duplicates()
merge_keep_dedup(df, top_keys, means) ==
    LET keys == {top_keys[i].key : i \in 1 .. Len(top_keys)}
        kept == DropDuplicates(SelectSeq(df, LAMBDA r : gb(r) \in keys))
    IN [i \in 1 .. Len(kept) |->
          [SamplingPoint |-> kept[i].SamplingPoint, lat |-> kept[i].lat,
           long |-> kept[i].long, Type |-> kept[i].Type,
           YearMonth |-> kept[i].YearMonth, mc |-> kept[i].mc,
           avg |-> (CHOOSE e \in Range(means) : e.key = gb(kept[i])).avg]]

\* the merges done on ("Sampling Point", "Type") in the place of gb
merge_keep_on_pair(df, top_keys, means) ==
    LET pairs == {<<top_keys[i].key[1], top_keys[i].key[4]>> : i \in 1 .. Len(top_keys)}
        kept == SelectSeq(df, LAMBDA r : <<r.SamplingPoint, r.Type>> \in pairs)
    IN [i \in 1 .. Len(kept) |->
          [SamplingPoint |-> kept[i].SamplingPoint, lat |-> kept[i].lat,
           long |-> kept[i].long, Type |-> kept[i].Type,
           YearMonth |-> kept[i].YearMonth, mc |-> kept[i].mc,
           avg |-> (CHOOSE e \in Range(means) :
                       e.key[1] = kept[i].SamplingPoint /\ e.key[4] = kept[i].Type).avg]]

\* df.merge(top_keys.assign(_keep=1), on=gb, how="inner")
\*   .merge(means, on=gb, how="left")[basic_cols + [VALUE_COL, AVG_COL]]
\* the left frame's rows whose key is in top_keys, in the left frame's order,
\* each with the avg of its key
merge_keep(df, top_keys, means) ==
    LET keys == {top_keys[i].key : i \in 1 .. Len(top_keys)}
        kept == SelectSeq(df, LAMBDA r : gb(r) \in keys)
    IN [i \in 1 .. Len(kept) |->
          [SamplingPoint |-> kept[i].SamplingPoint, lat |-> kept[i].lat,
           long |-> kept[i].long, Type |-> kept[i].Type,
           YearMonth |-> kept[i].YearMonth, mc |-> kept[i].mc,
           avg |-> (CHOOSE e \in Range(means) : e.key = gb(kept[i])).avg]]

\* ------------------------------------------------------ 20DB.py, Top20DB.py
\* 20DB.py get_top: every frame of every mineral filtered to its top-k groups
get_top(base, n) ==
    [mineral \in DOMAIN base |->
        [name \in DOMAIN base[mineral] |->
            LET df == base[mineral][name]
                means == groupby_mean(df)
                top_keys == nlargest(n, means)
            IN merge_keep(df, top_keys, means)]]

\* Top20DB.py get_top
get_top_Top20DB(base, n) ==
    [col \in DOMAIN base |->
        [f \in DOMAIN base[col] |->
            LET df == base[col][f]
                means_df == groupby_mean(df)
                top_keys == nlargest(n, means_df)
            IN merge_keep(df, top_keys, means_df)]]

\* ------------------------------------------------------------------ DB.py
\* base.filter(like=mineral, axis=1).columns
matched_mineral_cols(base, mineral) ==
    SelectSeq(base.columns, LAMBDA c : Like(c, mineral))

\* sum(axis=1) with the default min_count=0: 0 for a row without a value
row_sum_min_count0(r, mm) ==
    LET present == SelectSeq(mm, LAMBDA c : notna(r.conc[c]))
    IN Some(SeqSum([i \in 1 .. Len(present) |-> Val(r.conc[present[i]])]))

\* base[mm].sum(axis=1, min_count=1) on one row
row_sum(r, mm) ==
    LET present == SelectSeq(mm, LAMBDA c : notna(r.conc[c]))
    IN IF Len(present) < 1 THEN NaN
       ELSE Some(SeqSum([i \in 1 .. Len(present) |-> Val(r.conc[present[i]])]))

\* the Series base[mm].sum(axis=1, min_count=1), one entry per row of base
total_series(base, mm) == [i \in 1 .. Len(base.rows) |-> row_sum(base.rows[i], mm)]

\* the metrics select_topk_pairs loops over: mm, and "Total" when len(mm) > 1
metrics(base, mineral) ==
    LET mm == matched_mineral_cols(base, mineral)
    IN IF Len(mm) > 1 THEN mm \o <<"Total">> ELSE mm

\* Filtered_Base: the basic and matched columns, rows with no matched value
\* dropped, "Total" added (index-aligned) when len(mm) > 1
Filtered_Base(base, mineral) ==
    LET mm == matched_mineral_cols(base, mineral)
        total == total_series(base, mm)
        labelled == [i \in 1 .. Len(base.rows) |->
                        [base.rows[i] EXCEPT !.conc =
                            [c \in Range(metrics(base, mineral)) |->
                                IF c \in Range(mm) THEN base.rows[i].conc[c] ELSE total[i]]]]
    IN IF mm # <<>>
       THEN SelectSeq(labelled, LAMBDA r : \E c \in Range(mm) : notna(r.conc[c]))
       ELSE labelled

\* Filtered_Base[keep_cols + [m]] with m renamed "monthly concentration"
with_metric(fbase, m) ==
    [i \in 1 .. Len(fbase) |->
        [SamplingPoint |-> fbase[i].SamplingPoint, lat |-> fbase[i].lat,
         long |-> fbase[i].long, Type |-> fbase[i].Type,
         YearMonth |-> fbase[i].YearMonth, mc |-> fbase[i].conc[m]]]

\* fb.dropna(subset=m, how="all")
dropna_metric(df) == SelectSeq(df, LAMBDA r : notna(r.mc))

select_topk_pairs(base, mineral, n) ==
    LET fbase == Filtered_Base(base, mineral)
    IN [m \in Range(metrics(base, mineral)) |->
          LET fb == dropna_metric(with_metric(fbase, m))
              means_df == groupby_mean(fb)
              top_keys == nlargest(n, means_df)
          IN merge_keep(with_metric(fbase, m), top_keys, means_df)]

\* " ".join(words): the model's headers have one word before "as"
join(words) ==
    CASE words = <<>> -> ""
      [] Len(words) = 1 -> words[1]
      [] OTHER -> words

\* DB.py get_minerals: the name in front of every header with a unit, without
\* "Total", "," and ":"
get_minerals(df) ==
    LET cols_total == SelectSeq(df.columns,
                          LAMBDA c : HasUnit(c) /\ ~HasTotal(c) /\ ~HasPunctuation(c))
        name(words) ==
            IF \E i \in 1 .. Len(words) : words[i] = "as"
            THEN LET idx == CHOOSE i \in 1 .. Len(words) :
                               words[i] = "as" /\ \A j \in 1 .. i - 1 : words[j] # "as"
                 IN join(SubSeq(words, 1, idx - 1))
            ELSE words[1]
    IN [i \in 1 .. Len(cols_total) |-> name(Words(cols_total[i]))]

\* list(dfs.keys()): the model's dicts are functions, listed in one fixed order
keys(dfs) ==
    CHOOSE s \in [1 .. Cardinality(DOMAIN dfs) -> DOMAIN dfs] : Range(s) = DOMAIN dfs

\* if DEFAULT_MINERAL not in minerals and len(minerals) > 0: minerals[0]
default_mineral(minerals) ==
    IF DEFAULT_MINERAL \notin Range(minerals) /\ Len(minerals) > 0
    THEN minerals[1] ELSE DEFAULT_MINERAL

\* ------------------------------------------------- figures and tables
\* the column labels of a frame that get_top or select_topk_pairs returns
FrameColumns ==
    <<"Sampling Point", "lat", "long", "Type", "YearMonth",
      "monthly concentration", "average monthly concentration">>

\* rename(columns={"monthly concentration": "Detected Concentration",
\*                 "YearMonth": "Time"})
rename(columns) ==
    [i \in 1 .. Len(columns) |->
        CASE columns[i] = "monthly concentration" -> "Detected Concentration"
          [] columns[i] = "YearMonth" -> "Time"
          [] OTHER -> columns[i]]

\* Series.dt.to_timestamp(): the month yyyymm becomes its first day yyyymmdd
to_timestamp(c) == IF isna(c) THEN NaN ELSE Some(Val(c) * 100 + 1)

\* 20DB.py sanitize_base, in place: the period column YearMonth of every frame
sanitize_base(base) ==
    [mineral \in DOMAIN base |->
        [name \in DOMAIN base[mineral] |->
            [i \in 1 .. Len(base[mineral][name]) |->
                [base[mineral][name][i] EXCEPT !.YearMonth = to_timestamp(@)]]]]

\* build_dot_fig: one scatter figure per frame, drawn from the renamed frame
build_dot_fig(order, dfs, columns) ==
    [i \in 1 .. Len(order) |->
        [title |-> order[i], columns |-> rename(columns[order[i]]), rows |-> dfs[order[i]]]]

\* build_geo_fig: the "Total" frame's points
build_geo_fig(dfs) ==
    [i \in 1 .. Len(dfs["Total"]) |->
        [SamplingPoint |-> dfs["Total"][i].SamplingPoint, lat |-> dfs["Total"][i].lat,
         long |-> dfs["Total"][i].long, avg |-> dfs["Total"][i].avg]]

\* 20DB.py build_geo_fig: a copy of the "Total" frame without YearMonth
build_geo_fig_20DB(dfs) ==
    [i \in 1 .. Len(dfs["Total"]) |->
        [SamplingPoint |-> dfs["Total"][i].SamplingPoint, lat |-> dfs["Total"][i].lat,
         long |-> dfs["Total"][i].long, Type |-> dfs["Total"][i].Type,
         avg |-> dfs["Total"][i].avg]]

\* d[["Sampling Point", "Type", "average monthly concentration"]]
ranking_cols(d) ==
    [i \in 1 .. Len(d) |->
        [SamplingPoint |-> d[i].SamplingPoint, Type |-> d[i].Type, avg |-> d[i].avg]]

\* sort_values(by avg, ascending=False): NaN last; the frames are short
\* enough for the sort to keep the order of equal values
sort_values(tbl) ==
    SortDesc(SelectSeq(tbl, LAMBDA r : notna(r.avg))) \o SelectSeq(tbl, LAMBDA r : isna(r.avg))

\* equality of two float cells, NaN equal to NaN as in duplicated()
same_cell(a, b) == IF isna(a) \/ isna(b) THEN a = b ELSE a[1] * b[2] = b[1] * a[2]

\* the ranking table without drop_duplicates()
keep_duplicates(tbl) == tbl

\* drop_duplicates() over the three selected columns, first occurrence kept
RECURSIVE drop_duplicates(_)
drop_duplicates(tbl) ==
    IF tbl = <<>> THEN <<>>
    ELSE LET front == drop_duplicates(SubSeq(tbl, 1, Len(tbl) - 1))
             last == tbl[Len(tbl)]
         IN IF \E i \in 1 .. Len(front) :
                   /\ front[i].SamplingPoint = last.SamplingPoint
                   /\ front[i].Type = last.Type
                   /\ same_cell(front[i].avg, last.avg)
            THEN front ELSE Append(front, last)

\* f"{x:.2f}" as a number of hundredths, rounded half to even; "nan" for NaN
format2f(x) ==
    IF isna(x) THEN NaN
    ELSE LET q == (100 * x[1]) \div x[2]
             r == (100 * x[1]) % x[2]
         IN Some(CASE 2 * r < x[2] -> q
                   [] 2 * r > x[2] -> q + 1
                   [] OTHER -> IF q % 2 = 0 THEN q ELSE q + 1)

\* the records of a ranking table, the mean formatted and named MonthlyMean
to_records(tbl) ==
    [i \in 1 .. Len(tbl) |->
        [SamplingPoint |-> tbl[i].SamplingPoint, Type |-> tbl[i].Type,
         MonthlyMean |-> format2f(tbl[i].avg)]]

\* label = m if "Total" not in m else "Total Detected Concentration"
label(m) == IF HasTotal(m) THEN "Total Detected Concentration" ELSE m

\* the frame a label's table is built from: the last one stored under it
last_with_label(order, l) ==
    order[CHOOSE i \in 1 .. Len(order) :
              label(order[i]) = l /\ \A j \in i + 1 .. Len(order) : label(order[j]) # l]

\* DB.py, Top20DB.py build_table_data: sorted, then deduplicated
build_table_data(order, dfs) ==
    [l \in {label(order[i]) : i \in 1 .. Len(order)} |->
        to_records(drop_duplicates(sort_values(ranking_cols(dfs[last_with_label(order, l)]))))]

\* 20DB.py build_table_data: deduplicated, then sorted
build_table_data_20DB(order, dfs) ==
    [l \in {label(order[i]) : i \in 1 .. Len(order)} |->
        to_records(sort_values(drop_duplicates(ranking_cols(dfs[last_with_label(order, l)]))))]

\* what a call hands to the page: the dot figures, the tables, the geo figure
NoView == [status |-> "none", mineral |-> "", dots |-> <<>>, tables |-> <<>>, geo |-> <<>>]

\* the KeyError of point_agg["Total"]
KeyError(mineral) ==
    [status |-> "KeyError", mineral |-> mineral, dots |-> <<>>, tables |-> <<>>, geo |-> <<>>]

Shown(mineral, dots, tables, geo) ==
    [status |-> "ok", mineral |-> mineral, dots |-> dots, tables |-> tables, geo |-> geo]

\* ------------------------------------------------------------ input tables
Tables(S) == UNION {[1 .. n -> S] : n \in 0 .. MaxRows}

CsvRows(sites, concs) ==
    [SamplingPoint : sites, lat : Lats, long : Longs, Type : Types,
     YearMonth : Months, conc : concs]

DfRows ==
    [SamplingPoint : Sites, lat : Lats, long : Longs, Type : Types,
     YearMonth : Months, mc : Concs]

\* read_csv: a table with one or with two concentration columns of the mineral
CsvInputs ==
    {[columns |-> <<ColDissolved>>, rows |-> t] :
        t \in Tables(CsvRows(Sites, [{ColDissolved} -> Concs]))}
    \cup
    {[columns |-> <<ColDissolved, ColTotalMg>>, rows |-> t] :
        t \in Tables(CsvRows(Sites2, [{ColDissolved, ColTotalMg} -> Concs2]))}

\* pickle.load: {mineral: {name: frame}}
PickleInputs ==
    {[mineral \in {DEFAULT_MINERAL} |-> [name \in {"Total"} |-> t]] : t \in Tables(DfRows)}

\* ----------------------------------------------------------- the programs
Init ==
    /\ \/ variant = "DB" /\ raw \in CsvInputs
       \/ variant \in {"20DB", "Top20DB"} /\ raw \in PickleInputs
    /\ k = 0
    /\ agg = <<>>
    /\ pc = "loaded"
    /\ cols = <<>>
    /\ view = NoView
    /\ seen = <<>>

\* DB.py: _initial_qm = select_topk_pairs(BASE, DEFAULT_MINERAL, k=k), with
\* DEFAULT_MINERAL replaced by the first offered mineral when it is not offered
StartupDB(n) ==
    /\ pc = "loaded" /\ variant = "DB"
    /\ agg' = select_topk_pairs(raw, default_mineral(get_minerals(raw)), n)
    /\ k' = n
    /\ pc' = "ready"
    /\ UNCHANGED <<variant, raw, cols, view, seen>>

\* 20DB.py: BASE = get_top(raw_base, TOP_K)
Startup20DB(n) ==
    /\ pc = "loaded" /\ variant = "20DB"
    /\ agg' = get_top(raw, n)
    /\ cols' = [mineral \in DOMAIN raw |-> [name \in DOMAIN raw[mineral] |-> FrameColumns]]
    /\ k' = n
    /\ pc' = "ready"
    /\ UNCHANGED <<variant, raw, view, seen>>

\* Top20DB.py: BASE = get_top(BASE, k)
StartupTop20DB(n) ==
    /\ pc = "loaded" /\ variant = "Top20DB"
    /\ agg' = get_top_Top20DB(raw, n)
    /\ cols' = [col \in DOMAIN raw |-> [f \in DOMAIN raw[col] |-> FrameColumns]]
    /\ k' = n
    /\ pc' = "ready"
    /\ UNCHANGED <<variant, raw, view, seen>>

Next ==
    \/ \E n \in KValues : StartupDB(n)
    \/ \E n \in KValues : Startup20DB(n)
    \/ \E n \in KValues : StartupTop20DB(n)

Spec == Init /\ [][Next]_vars

\* the aggregation of one value column: a CSV with a single concentration
\* column of the mineral, or a pickled frame
InitSingle ==
    /\ \/ /\ variant = "DB"
          /\ raw \in {[columns |-> <<ColDissolved>>, rows |-> t] :
                         t \in Tables(CsvRows(Sites, [{ColDissolved} -> Concs]))}
       \/ variant \in {"20DB", "Top20DB"} /\ raw \in PickleInputs
    /\ k = 0
    /\ agg = <<>>
    /\ pc = "loaded"
    /\ cols = <<>>
    /\ view = NoView
    /\ seen = <<>>

SpecSingle == InitSingle /\ [][Next]_vars

\* the key cells of rows of which some lack a grouping field
KeyCells ==
    [SamplingPoint : Sites2, lat : Lats, long : Longs, Type : Types]
    \cup {[SamplingPoint |-> Some(1), lat |-> NaN, long |-> Some(0), Type |-> Some("RIVER")],
          [SamplingPoint |-> Some(1), lat |-> Some(51), long |-> NaN, Type |-> Some("RIVER")],
          [SamplingPoint |-> Some(1), lat |-> Some(51), long |-> Some(0), Type |-> NaN],
          [SamplingPoint |-> NaN, lat |-> Some(51), long |-> Some(0), Type |-> Some("RIVER")]}

Present == {Some(1), Some(2)}

DfRowsNullKey ==
    {[SamplingPoint |-> c.SamplingPoint, lat |-> c.lat, long |-> c.long, Type |-> c.Type,
      YearMonth |-> Some(1), mc |-> v] : c \in KeyCells, v \in Present}

CsvRowsNullKey ==
    {[SamplingPoint |-> c.SamplingPoint, lat |-> c.lat, long |-> c.long, Type |-> c.Type,
      YearMonth |-> Some(1), conc |-> [h \in {ColDissolved} |-> v]] :
        c \in KeyCells, v \in Present}

\* data in which rows may lack a grouping field
InitNullKey ==
    /\ \/ /\ variant = "DB"
          /\ raw \in {[columns |-> <<ColDissolved>>, rows |-> t] : t \in Tables(CsvRowsNullKey)}
       \/ /\ variant \in {"20DB", "Top20DB"}
          /\ raw \in {[mineral \in {DEFAULT_MINERAL} |-> [name \in {"Total"} |-> t]] :
                         t \in Tables(DfRowsNullKey)}
    /\ k = 0
    /\ agg = <<>>
    /\ pc = "loaded"
    /\ cols = <<>>
    /\ view = NoView
    /\ seen = <<>>

SpecNullKey == InitNullKey /\ [][Next]_vars

\* ------------------------------------------------- serving the dashboard
\* the first result of every mineral asked for so far, and whether it was
\* asked for again
remember(mineral, result) ==
    IF mineral \in DOMAIN seen
    THEN [seen EXCEPT ![mineral].again = TRUE]
    ELSE seen @@ (mineral :> [result |-> result, again |-> FALSE])

\* select_topk_pairs writing its dropna into the table it is given
base_dropna_inplace(base, mineral) ==
    [base EXCEPT !.rows =
        SelectSeq(base.rows,
                  LAMBDA r : \E c \in Range(matched_mineral_cols(base, mineral)) :
                                 notna(r.conc[c]))]

\* BASE after a call of select_topk_pairs, which works on copies of it
base_after_select(base, mineral) == base

\* DB.py: the figures and tables of a result of select_topk_pairs
show_DB(mineral, order, qm) ==
    IF "Total" \in DOMAIN qm
    THEN Shown(mineral, build_dot_fig(order, qm, [m \in DOMAIN qm |-> FrameColumns]),
               build_table_data(order, qm), build_geo_fig(qm))
    ELSE KeyError(mineral)

\* DB.py: initial_geo, initial_dot, initial_table; a KeyError ends the import
InitialDB ==
    /\ pc = "ready" /\ variant = "DB"
    /\ LET mineral == default_mineral(get_minerals(raw))
       IN /\ view' = show_DB(mineral, metrics(raw, mineral), agg)
          /\ pc' = IF view'.status = "ok" THEN "serving" ELSE "failed"
    /\ UNCHANGED <<variant, raw, k, agg, cols, seen>>

\* DB.py update_all(chosen_mineral), chosen in the dropdown of get_minerals
update_all_DB(chosen_mineral) ==
    /\ pc = "serving" /\ variant = "DB"
    /\ view' = show_DB(chosen_mineral, metrics(raw, chosen_mineral),
                       select_topk_pairs(raw, chosen_mineral, k))
    /\ raw' = base_after_select(raw, chosen_mineral)
    /\ seen' = remember(chosen_mineral, view')
    /\ UNCHANGED <<variant, k, agg, cols, pc>>

\* 20DB.py: the figures and tables of a mineral of BASE, drawn from copies
show_20DB(base, columns, mineral) ==
    IF "Total" \in DOMAIN base[mineral]
    THEN Shown(mineral, build_dot_fig(keys(base[mineral]), base[mineral], columns[mineral]),
               build_table_data_20DB(keys(base[mineral]), base[mineral]),
               build_geo_fig_20DB(base[mineral]))
    ELSE KeyError(mineral)

\* Top20DB.py: the figures and tables of a mineral of BASE
show_Top20DB(base, columns, mineral) ==
    IF "Total" \in DOMAIN base[mineral]
    THEN Shown(mineral, build_dot_fig(keys(base[mineral]), base[mineral], columns[mineral]),
               build_table_data(keys(base[mineral]), base[mineral]),
               build_geo_fig(base[mineral]))
    ELSE KeyError(mineral)

\* Top20DB.py build_dot_fig: d.rename(..., inplace=True) on the frames of
\* BASE[mineral]
renamed_inplace(mineral) ==
    [cols EXCEPT ![mineral] = [name \in DOMAIN cols[mineral] |-> rename(cols[mineral][name])]]

\* 20DB.py: sanitize_base(BASE), then the initial figures and tables
Initial20DB ==
    /\ pc = "ready" /\ variant = "20DB"
    /\ agg' = sanitize_base(agg)
    /\ LET mineral == default_mineral(keys(agg))
       IN /\ view' = show_20DB(sanitize_base(agg), cols, mineral)
          /\ pc' = IF view'.status = "ok" THEN "serving" ELSE "failed"
    /\ UNCHANGED <<variant, raw, k, cols, seen>>

\* 20DB.py update_all(chosen_mineral)
update_all_20DB(chosen_mineral) ==
    /\ pc = "serving" /\ variant = "20DB"
    /\ view' = show_20DB(agg, cols, chosen_mineral)
    /\ seen' = remember(chosen_mineral, view')
    /\ UNCHANGED <<variant, raw, k, agg, cols, pc>>

\* Top20DB.py: the initial figures and tables
InitialTop20DB ==
    /\ pc = "ready" /\ variant = "Top20DB"
    /\ LET mineral == default_mineral(keys(agg))
       IN /\ view' = show_Top20DB(agg, cols, mineral)
          /\ cols' = IF view'.status = "ok" THEN renamed_inplace(mineral) ELSE cols
          /\ pc' = IF view'.status = "ok" THEN "serving" ELSE "failed"
    /\ UNCHANGED <<variant, raw, k, agg, seen>>

\* Top20DB.py update_all(chosen_mineral)
update_all_Top20DB(chosen_mineral) ==
    /\ pc = "serving" /\ variant = "Top20DB"
    /\ view' = show_Top20DB(agg, cols, chosen_mineral)
    /\ cols' = IF view'.status = "ok" THEN renamed_inplace(chosen_mineral) ELSE cols
    /\ seen' = remember(chosen_mineral, view')
    /\ UNCHANGED <<variant, raw, k, agg, pc>>

\* minerals, the options of the dropdown
minerals == IF variant = "DB" THEN get_minerals(raw) ELSE keys(agg)

NextDB ==
    \/ \E n \in KValues : StartupDB(n)
    \/ InitialDB
    \/ \E m \in Range(minerals) : update_all_DB(m)

NextCache ==
    \/ \E n \in KValues : Startup20DB(n)
    \/ \E n \in KValues : StartupTop20DB(n)
    \/ Initial20DB
    \/ InitialTop20DB
    \/ \E m \in Range(minerals) : update_all_20DB(m)
    \/ \E m \in Range(minerals) : update_all_Top20DB(m)

\* pickle.load: the frames of two minerals
ZincRows ==
    [SamplingPoint : {Some(1)}, lat : Lats, long : Longs, Type : Types,
     YearMonth : Months, mc : {Some(1)}]

MagnesiumRows ==
    [SamplingPoint : Sites2, lat : Lats, long : Longs, Type : Types,
     YearMonth : Months, mc : Present]

CachePickles ==
    {(DEFAULT_MINERAL :> [name \in {"Total"} |-> t]) @@ ("Zinc" :> [name \in {"Total"} |-> z]) :
        t \in Tables(MagnesiumRows), z \in Tables(ZincRows)}

InitCache ==
    /\ variant \in {"20DB", "Top20DB"}
    /\ raw \in CachePickles
    /\ k = 0
    /\ agg = <<>>
    /\ pc = "loaded"
    /\ cols = <<>>
    /\ view = NoView
    /\ seen = <<>>

SpecCache == InitCache /\ [][NextCache]_vars

\* inputs in which Sampling Point 1 may be recorded at two latitudes
Lats2 == {Some(51), Some(52)}

DfRowsTwoLats ==
    {r \in [SamplingPoint : Sites2, lat : Lats2, long : Longs, Type : Types,
            YearMonth : Months, mc : Present] :
        r.SamplingPoint = Some(2) => r.lat = Some(51)}

CsvRowsTwoLats ==
    {r \in [SamplingPoint : Sites2, lat : Lats2, long : Longs, Type : Types,
            YearMonth : Months,
            conc : {f \in [{ColMg, ColTotalMg} -> Concs] :
                       \/ f[ColMg] = Some(1) /\ f[ColTotalMg] = NaN
                       \/ f[ColMg] = NaN /\ f[ColTotalMg] = Some(2)}] :
        r.SamplingPoint = Some(2) => r.lat = Some(51)}

InitTable ==
    /\ \/ /\ variant = "DB"
          /\ raw \in {[columns |-> <<ColMg, ColTotalMg>>, rows |-> t] : t \in Tables(CsvRowsTwoLats)}
       \/ /\ variant \in {"20DB", "Top20DB"}
          /\ raw \in {[mineral \in {DEFAULT_MINERAL} |-> [name \in {"Total"} |-> t]] :
                         t \in Tables(DfRowsTwoLats)}
    /\ k = 0
    /\ agg = <<>>
    /\ pc = "loaded"
    /\ cols = <<>>
    /\ view = NoView
    /\ seen = <<>>

NextAll == NextDB \/ NextCache

\* read_csv: the columns of two minerals, one of them with a single column,
\* or the single column of a mineral that is not DEFAULT_MINERAL
ServeConcs ==
    {f \in [{ColMg, ColTotalMg, ColZinc} -> Concs] :
        \/ f[ColMg] = Some(1) /\ f[ColTotalMg] = NaN /\ f[ColZinc] = NaN
        \/ f[ColMg] = NaN /\ f[ColTotalMg] = NaN /\ f[ColZinc] = Some(1)
        \/ f[ColMg] = Some(1) /\ f[ColTotalMg] = Some(2) /\ f[ColZinc] = Some(1)}

ServeInputs ==
    {[columns |-> <<ColMg, ColTotalMg, ColZinc>>, rows |-> t] :
        t \in Tables(CsvRows(Sites2, ServeConcs))}
    \cup
    {[columns |-> <<ColNitrate>>, rows |-> t] :
        t \in Tables(CsvRows(Sites2, [{ColNitrate} -> Concs2]))}

InitServe ==
    /\ variant = "DB"
    /\ raw \in ServeInputs
    /\ k = 0
    /\ agg = <<>>
    /\ pc = "loaded"
    /\ cols = <<>>
    /\ view = NoView
    /\ seen = <<>>

SpecServe == InitServe /\ [][NextDB]_vars

SpecTable == InitTable /\ [][NextAll]_vars

\* =================================================================== claims
\* What the claims talk about, stated from the loaded data and the stored
\* result alone.

Ready == pc = "ready"

\* the mineral's determinand columns of the CSV
Determinands == {c \in Range(raw.columns) : Like(c, DEFAULT_MINERAL)}

\* a CSV row that carries a value of the mineral at all
Measured(r) == \E c \in Determinands : r.conc[c] # NaN

RECURSIVE SetSum(_, _)
SetSum(S, r) ==
    IF S = {} THEN 0
    ELSE LET c == CHOOSE x \in S : TRUE IN Val(r.conc[c]) + SetSum(S \ {c}, r)

\* the "Total" of a CSV row: no value when no determinand has one, else the
\* sum of the determinand values that are there
ExpectedTotal(r) ==
    IF ~Measured(r) THEN NaN
    ELSE Some(SetSum({c \in Determinands : r.conc[c] # NaN}, r))

MetricValue(r, m) == IF m \in Determinands THEN r.conc[m] ELSE ExpectedTotal(r)

\* the measurement rows of metric m in the CSV: the mineral's rows, with m's value
MetricRows(m) ==
    LET rows == SelectSeq(raw.rows, Measured)
    IN [i \in 1 .. Len(rows) |->
          [SamplingPoint |-> rows[i].SamplingPoint, lat |-> rows[i].lat,
           long |-> rows[i].long, Type |-> rows[i].Type,
           YearMonth |-> rows[i].YearMonth, mc |-> MetricValue(rows[i], m)]]

\* every (input rows, output rows) pair of the aggregation that has run
Views ==
    IF ~Ready THEN {}
    ELSE IF variant = "DB"
         THEN {[inp |-> MetricRows(m), out |-> agg[m]] : m \in DOMAIN agg}
         ELSE UNION {{[inp |-> raw[mi][f], out |-> agg[mi][f]] : f \in DOMAIN agg[mi]} :
                        mi \in DOMAIN agg}

Key(r) == <<r.SamplingPoint, r.lat, r.long, r.Type>>
Complete(key) == \A i \in 1 .. 4 : key[i] # NaN
KeysOf(rows) == {Key(rows[i]) : i \in 1 .. Len(rows)}

\* the positions of a group's rows that carry a value
ValuePositions(rows, key) == {i \in 1 .. Len(rows) : Key(rows[i]) = key /\ rows[i].mc # NaN}

\* the groups that have a mean: complete key, at least one value
Valued(rows) == {key \in KeysOf(rows) : Complete(key) /\ ValuePositions(rows, key) # {}}

RECURSIVE SumAt(_, _)
SumAt(rows, P) ==
    IF P = {} THEN 0
    ELSE LET i == CHOOSE x \in P : TRUE IN Val(rows[i].mc) + SumAt(rows, P \ {i})

\* the arithmetic mean of a group's values as a fraction, NaN when it has none
TrueMean(rows, key) ==
    LET P == ValuePositions(rows, key)
    IN IF P = {} THEN NaN ELSE <<SumAt(rows, P), Cardinality(P)>>

SameMean(a, b) ==
    IF a = NaN \/ b = NaN THEN a = b ELSE a[1] * b[2] = b[1] * a[2]

\* a is a mean and b is none, or a smaller one
HigherMean(a, b) == a # NaN /\ (b = NaN \/ a[1] * b[2] > b[1] * a[2])

Minimum(a, b) == IF a < b THEN a ELSE b

\* C1: for k >= 1 the filtered output of every metric holds rows of at most k
\* distinct group keys (Sampling Point, lat, long, Type).
C1_AtMostKGroups ==
    \A v \in Views : k >= 1 => Cardinality(KeysOf(v.out)) <= k

\* k = 1, two groups with a value in the input, one of them in the output
C1_Witness ==
    \E v \in Views :
        k = 1 /\ Cardinality(Valued(v.inp)) >= 2 /\ Cardinality(KeysOf(v.out)) = 1

\* C2: for k >= 1 the selected groups are k groups of highest mean (all the
\* groups with a mean when there are fewer than k), and no group left out has
\* a strictly higher mean than a selected one.
C2_TopKHighestMeans ==
    \A v \in Views :
        k >= 1 =>
            /\ Cardinality(KeysOf(v.out) \cap Valued(v.inp))
                  = Minimum(k, Cardinality(Valued(v.inp)))
            /\ \A g \in KeysOf(v.inp) \ KeysOf(v.out) : \A s \in KeysOf(v.out) :
                  ~HigherMean(TrueMean(v.inp, g), TrueMean(v.inp, s))

\* three groups of three different means, k = 2: the lowest one is left out
C2_Witness ==
    \E v \in Views :
        /\ k = 2 /\ Cardinality(Valued(v.inp)) = 3 /\ Cardinality(KeysOf(v.out)) = 2
        /\ \E g \in Valued(v.inp) \ KeysOf(v.out) : \A s \in KeysOf(v.out) :
              HigherMean(TrueMean(v.inp, s), TrueMean(v.inp, g))

\* C3: the average attached to an output row is the arithmetic mean of the
\* metric over exactly the rows of its group that carry a value in the input
\* (a retained group without any value carries no number), the same on every
\* row of the group.
C3_GroupMeanIsMean ==
    \A v \in Views : \A i \in 1 .. Len(v.out) :
        SameMean(v.out[i].avg, TrueMean(v.inp, Key(v.out[i])))

\* a retained group with the values 1 and 2 and a row without a value: 3/2
C3_Witness ==
    \E v \in Views : \E i \in 1 .. Len(v.out) :
        /\ v.out[i].avg = <<3, 2>>
        /\ \E j \in 1 .. Len(v.inp) : Key(v.inp[j]) = Key(v.out[i]) /\ v.inp[j].mc = NaN

\* the input fields of an output row
Original(o) ==
    [SamplingPoint |-> o.SamplingPoint, lat |-> o.lat, long |-> o.long,
     Type |-> o.Type, YearMonth |-> o.YearMonth, mc |-> o.mc]

\* C4: the output of a metric is the metric's input rows (DB.py: the CSV rows
\* that carry a value of the mineral; get_top: the rows of the frame) whose
\* group key is a selected one: each as often as in the input, in the input's
\* order, site, lat, long, type, time bucket and value unchanged, and no row
\* of another group.
C4_OutputIsFilteredInput ==
    \A v \in Views :
        [i \in 1 .. Len(v.out) |-> Original(v.out[i])]
            = SelectSeq(v.inp, LAMBDA r : Key(r) \in KeysOf(v.out))

\* k = 1: a selected group's row, a row of a group left out, and the selected
\* group's row once more
C4_Witness ==
    \E v \in Views :
        /\ k = 1 /\ Len(v.inp) = 3 /\ Len(v.out) = 2
        /\ v.inp[1] = v.inp[3] /\ Key(v.inp[2]) \notin KeysOf(v.out)

CountKey(rows, key) == Cardinality({i \in 1 .. Len(rows) : Key(rows[i]) = key})

\* C5: on a non-empty input with k >= 1 at least the number of groups (the
\* keys that have a mean), every group is selected and every input row of a
\* group is in the output.
C5_AllGroupsWhenKLarge ==
    \A v \in Views :
        (Len(v.inp) > 0 /\ k >= 1 /\ k >= Cardinality(Valued(v.inp))) =>
            /\ Valued(v.inp) \subseteq KeysOf(v.out)
            /\ \A key \in Valued(v.inp) : CountKey(v.out, key) = CountKey(v.inp, key)

\* k = 2 and two groups, three rows: all three rows are in the output
C5_Witness ==
    \E v \in Views :
        k = 2 /\ Cardinality(Valued(v.inp)) = 2 /\ Len(v.inp) = 3 /\ Len(v.out) = 3

\* C6: in DB.py the output of metric m holds no row whose value of m is
\* missing.
C6_NoNullValueRows ==
    (Ready /\ variant = "DB") =>
        \A m \in DOMAIN agg : \A i \in 1 .. Len(agg[m]) : agg[m][i].mc # NaN

\* C7: a group without any value of the metric is never selected, whatever k.
C7_NoMeanNeverSelected ==
    \A v \in Views : KeysOf(v.out) \subseteq Valued(v.inp)

\* C8: the "Total" computed for a CSV row is missing (not 0) when all the
\* determinand values of the row are missing, and the sum of those that are
\* there otherwise; the rows of the "Total" output carry such a sum.
C8_TotalIsSumOfPresent ==
    (Ready /\ variant = "DB") =>
        LET mm == matched_mineral_cols(raw, DEFAULT_MINERAL)
        IN /\ \A i \in 1 .. Len(raw.rows) :
                 total_series(raw, mm)[i] = ExpectedTotal(raw.rows[i])
           /\ "Total" \in DOMAIN agg =>
                 \A i \in 1 .. Len(agg["Total"]) :
                    /\ agg["Total"][i].mc # NaN
                    /\ \E j \in 1 .. Len(raw.rows) :
                          /\ Measured(raw.rows[j])
                          /\ Key(raw.rows[j]) = Key(agg["Total"][i])
                          /\ agg["Total"][i].mc = ExpectedTotal(raw.rows[j])

\* two determinand columns; a row without a value, a row with one value and a
\* row with both, 2 + 2, in the "Total" output
C8_Witness ==
    /\ Ready /\ variant = "DB" /\ "Total" \in DOMAIN agg
    /\ \E i \in 1 .. Len(raw.rows) : ~Measured(raw.rows[i])
    /\ \E i \in 1 .. Len(raw.rows) :
          Cardinality({c \in Determinands : raw.rows[i].conc[c] # NaN}) = 1
    /\ \E i \in 1 .. Len(agg["Total"]) : agg["Total"][i].mc = Some(4)

\* C9: a k <= 0 is rejected: no aggregation result is ever produced with it.
C9_NonPositiveKRejected == Ready => k >= 1

\* C10: a metric none of whose input rows carries a value has an empty output.
C10_NoValuesEmptyOutput ==
    \A v \in Views :
        (\A i \in 1 .. Len(v.inp) : v.inp[i].mc = NaN) => v.out = <<>>

\* the order of two complete keys: by site, then lat, long and type
KeyBefore(a, b) ==
    LET x == <<Val(a[1]), Val(a[2]), Val(a[3])>>
        y == <<Val(b[1]), Val(b[2]), Val(b[3])>>
    IN \/ \E i \in 1 .. 3 : x[i] < y[i] /\ \A j \in 1 .. i - 1 : x[j] = y[j]
       \/ x = y /\ Val(a[4]) = "LAKE" /\ Val(b[4]) = "RIVER"

\* every key of the input has a mean, and the means are all the same
AllTied(rows) ==
    /\ rows # <<>>
    /\ KeysOf(rows) = Valued(rows)
    /\ \A a, b \in KeysOf(rows) : SameMean(TrueMean(rows, a), TrueMean(rows, b))

\* C13 as stated: with k = 1 and all group means tied, the one selected group
\* is the group of the first input row.
C13_TieFirstEncountered ==
    \A v \in Views :
        (k = 1 /\ AllTied(v.inp)) => KeysOf(v.out) = {Key(v.inp[1])}

\* C13 amended: with k = 1 and all group means tied, exactly one group is
\* selected, the one whose key (Sampling Point, lat, long, Type) sorts first.
C13_TieLowestKey ==
    \A v \in Views :
        (k = 1 /\ AllTied(v.inp)) =>
            /\ Cardinality(KeysOf(v.out)) = 1
            /\ \A s \in KeysOf(v.out) : \A g \in KeysOf(v.inp) \ {s} : KeyBefore(s, g)

\* two tied groups, the input starting with the one that sorts last
C13_Witness ==
    \E v \in Views :
        /\ k = 1 /\ AllTied(v.inp) /\ Cardinality(KeysOf(v.inp)) >= 2
        /\ Key(v.inp[1]) \notin KeysOf(v.out)
        /\ v.out # <<>>

\* all the CSV rows as a frame of metric m, rows without a value included
FrameOf(m) ==
    [i \in 1 .. Len(raw.rows) |->
        [SamplingPoint |-> raw.rows[i].SamplingPoint, lat |-> raw.rows[i].lat,
         long |-> raw.rows[i].long, Type |-> raw.rows[i].Type,
         YearMonth |-> raw.rows[i].YearMonth, mc |-> raw.rows[i].conc[m]]]

\* a frame as a CSV with the single concentration column m
CsvOf(frame, m) ==
    [columns |-> <<m>>,
     rows |-> [i \in 1 .. Len(frame) |->
                  [SamplingPoint |-> frame[i].SamplingPoint, lat |-> frame[i].lat,
                   long |-> frame[i].long, Type |-> frame[i].Type,
                   YearMonth |-> frame[i].YearMonth, conc |-> [c \in {m} |-> frame[i].mc]]]]

Pickled(frame) == [mineral \in {DEFAULT_MINERAL} |-> [name \in {"Total"} |-> frame]]

\* C16: on the same rows of one metric (rows without a value included) and
\* the same k, select_topk_pairs and the two get_top give the same output:
\* the same rows with the same averages.
C16_SameAggregation ==
    Ready =>
        IF variant = "DB"
        THEN \A m \in DOMAIN agg :
                /\ agg[m] = get_top(Pickled(FrameOf(m)), k)[DEFAULT_MINERAL]["Total"]
                /\ agg[m] = get_top_Top20DB(Pickled(FrameOf(m)), k)[DEFAULT_MINERAL]["Total"]
        ELSE \A mi \in DOMAIN agg : \A f \in DOMAIN agg[mi] :
                /\ agg[mi][f] = get_top(raw, k)[mi][f]
                /\ agg[mi][f] = get_top_Top20DB(raw, k)[mi][f]
                /\ agg[mi][f] = select_topk_pairs(CsvOf(raw[mi][f], ColDissolved),
                                                  DEFAULT_MINERAL, k)[ColDissolved]

\* C14: a row that lacks a grouping field (Sampling Point, lat, long or Type)
\* is left out of the grouping: it is in no output, it counts in no group
\* mean, it takes none of the k places, and the aggregation still completes.
C14_NullKeyRowsExcluded ==
    \A v \in Views :
        /\ \A i \in 1 .. Len(v.out) :
              /\ Complete(Key(v.out[i]))
              /\ SameMean(v.out[i].avg, TrueMean(v.inp, Key(v.out[i])))
        /\ k >= 1 => Cardinality(KeysOf(v.out)) = Minimum(k, Cardinality(Valued(v.inp)))

\* a selected group of site 1 with one value, and a row of site 1 that lacks
\* a grouping field and has another value
C14_Witness ==
    \E v \in Views : \E i \in 1 .. Len(v.inp) :
        /\ ~Complete(Key(v.inp[i])) /\ v.inp[i].SamplingPoint = Some(1)
        /\ v.out # <<>>
        /\ \A j \in 1 .. Len(v.out) :
              v.out[j].SamplingPoint = Some(1) /\ v.out[j].mc # v.inp[i].mc

\* C12: in the caching variants (Top20DB.py, 20DB.py) no update_all call
\* changes BASE: once startup has finished, the rows and the column names of
\* every frame of BASE stay what they were
C12_RequestsLeaveBaseUnchanged ==
    [][(variant \in {"20DB", "Top20DB"} /\ pc = "serving") => (agg' = agg /\ cols' = cols)]_vars

\* the rows read at start-up
InputRows ==
    IF variant = "DB" THEN Range(raw.rows)
    ELSE UNION {UNION {Range(raw[m][name]) : name \in DOMAIN raw[m]} : m \in DOMAIN raw}

\* every Sampling Point of the input is recorded at one location
OneLocation ==
    \A a, b \in InputRows :
        a.SamplingPoint = b.SamplingPoint => a.lat = b.lat /\ a.long = b.long

\* the rows of a ranking table have pairwise different (Sampling Point, Type)
OneRowPerPair(tbl) ==
    \A i, j \in 1 .. Len(tbl) :
        (tbl[i].SamplingPoint = tbl[j].SamplingPoint /\ tbl[i].Type = tbl[j].Type) => i = j

C17_UpdateAllCompletes == pc = "serving" => view.status # "KeyError"

====
